---- MODULE Spec2Model ----
(***************************************************************************)
(* hbackup: the backup-job resolution and execution engine.                *)
(*                                                                         *)
(* The model follows src/src/item.rs (get_item, get_items, execute_item,   *)
(* execute_item_async), src/src/job.rs (run_job, run_jobs, run_job_async), *)
(* src/src/file_util.rs (needs_update, TOLERANCE, compression) and         *)
(* src/src/application.rs (add_job, remove_job) over a small file          *)
(* system.  A path is the sequence of its components, so that              *)
(* Path::starts_with, Path::join and Path::strip_prefix work on whole      *)
(* components exactly as std::path does.                                   *)
(***************************************************************************)
EXTENDS Integers, Sequences, FiniteSets, TLC

VARIABLES
    fs,      \* the file system: path -> node (kind, size, modification time)
    jobs,    \* the batch handed to run_job / run_jobs
    pc,      \* per job: "ready", "exec", "drain", "done"
    items,   \* per job: the worklist returned by get_items
    st,      \* per job, per item: progress / outcome of execute_item_async
    res,     \* per job: "none", "ok", "err"
    alive,   \* FALSE once process::exit has been called
    run,     \* how many times the batch has been started
    fs0,     \* the file system as it was when the current run was started
    prev,    \* per job: what the previous run returned
    ext,     \* how many times another process has touched the target
    nu,      \* one call of needs_update: [sm, dm, called, out]
    call,    \* the calls made to file_util::compression, in order
    app,     \* the Application: its jobs and the last operation on it
    ex,      \* one item handed to execute_item: [item, n, out, fs1]
    ret,     \* what run() returned for the batch: "none", "ok", "err"
    cfg      \* the backup of the config file: [backup, was]

vars == <<fs, jobs, pc, items, st, res, alive, run, fs0, prev, ext, nu,
          call, app, ex, ret, cfg>>

----------------------------------------------------------------------------
(* Bounds of the model.                                                    *)

MaxTime == 3      \* modification times range over 0..MaxTime
MaxSize == 2      \* file sizes range over 1..MaxSize
MaxRuns == 2      \* a job is run at most this many times in a row
MaxExt == 1       \* interventions of another process on the target
MaxIgnore == 1    \* length of a job's ignore list

(* file_util.rs:31  const TOLERANCE: Duration = Duration::from_secs(1)     *)
TOLERANCE == 1

Times == 0..MaxTime
Sizes == 1..MaxSize
Now == MaxTime            \* the time at which the backup runs
SrcTime == MaxTime - 1    \* when the source tree was last written
DirLen == MaxSize         \* Metadata::len() of a directory (platform value)

----------------------------------------------------------------------------
(* Paths.                                                                  *)

SourceRoot == <<"s">>
TargetRoot == <<"t">>
Missing == <<"nx">>       \* a path that never exists

SrcPaths == { <<"s">>, <<"s", "d">>, <<"s", "d", "b">>, <<"s", "da">> }
DstPaths == { <<"t">>, <<"t", "o">>, <<"t", "s">>, <<"t", "s", "d">>,
              <<"t", "s", "d", "b">>, <<"t", "s", "da">>,
              <<"t", "s", "da", "da">> }

(* job.rs:33-42  CompressFormat *)
Formats == {"Gzip", "Zip", "Sevenz", "Zstd", "Bzip2", "Xz", "Lz4", "Tar"}
FormatOrder == <<"Gzip", "Zip", "Sevenz", "Zstd", "Bzip2", "Xz", "Lz4", "Tar">>

(* the same extension for a directory as for a file *)
artifact_name_flat(file_name, format, dir) ==
    CASE format = "Gzip" -> file_name \o ".gz"
      [] format = "Zip" -> file_name \o ".zip"
      [] format = "Sevenz" -> file_name \o ".7z"
      [] format = "Zstd" -> file_name \o ".zst"
      [] format = "Bzip2" -> file_name \o ".bz2"
      [] format = "Xz" -> file_name \o ".xz"
      [] format = "Lz4" -> file_name \o ".lz4"
      [] format = "Tar" -> file_name \o ".tar"

(* file_util.rs: the name each compress_* function gives its artifact,     *)
(* format!("{file_name}.tar.gz") and the like.                             *)
artifact_name(file_name, format, dir) ==
    CASE format = "Gzip" -> IF dir THEN file_name \o ".tar.gz" ELSE file_name \o ".gz"
      [] format = "Zip" -> file_name \o ".zip"
      [] format = "Sevenz" -> file_name \o ".7z"
      [] format = "Zstd" -> IF dir THEN file_name \o ".tar.zst" ELSE file_name \o ".zst"
      [] format = "Bzip2" -> IF dir THEN file_name \o ".tar.bz2" ELSE file_name \o ".bz2"
      [] format = "Xz" -> IF dir THEN file_name \o ".tar.xz" ELSE file_name \o ".xz"
      [] format = "Lz4" -> IF dir THEN file_name \o ".tar.lz4" ELSE file_name \o ".lz4"
      [] format = "Tar" -> file_name \o ".tar"

(* the artifacts the target directory can come to hold *)
ArtOrder ==
    [i \in 1..Len(FormatOrder) |-> <<"t", artifact_name("s", FormatOrder[i], TRUE)>>]
    \o [i \in 1..Len(FormatOrder) |-> <<"t", artifact_name("da", FormatOrder[i], FALSE)>>]
ArtPaths == { ArtOrder[i] : i \in 1..Len(ArtOrder) }

Paths == SrcPaths \cup DstPaths \cup ArtPaths

(* The order in which WalkDir yields entries: a directory before its       *)
(* contents.                                                               *)
WalkOrder == << <<"s">>, <<"s", "d">>, <<"s", "d", "b">>, <<"s", "da">>,
                <<"t">>, <<"t", "o">>, <<"t", "s">>, <<"t", "s", "d">>,
                <<"t", "s", "d", "b">>, <<"t", "s", "da">>,
                <<"t", "s", "da", "da">> >> \o ArtOrder

EmptyPath == << >>

(* Path::starts_with: whole components only.                               *)
starts_with(p, q) == Len(q) <= Len(p) /\ SubSeq(p, 1, Len(q)) = q

(* Path::parent *)
parent(p) == IF Len(p) = 0 THEN EmptyPath ELSE SubSeq(p, 1, Len(p) - 1)

(* Path::strip_prefix, for a prefix that p starts with *)
(* the path relative to the source itself: one more component is dropped  *)
strip_prefix_child(p, q) == SubSeq(p, Len(q) + 2, Len(p))

strip_prefix(p, q) == SubSeq(p, Len(q) + 1, Len(p))

(* Path::join with a relative path *)
join(p, r) == p \o r

(* Path::file_name *)
file_name(p) == <<p[Len(p)]>>

----------------------------------------------------------------------------
(* The file system.                                                        *)

NoNode == [k |-> "none", sz |-> 0, mt |-> 0]
FileNode(sz, mt) == [k |-> "file", sz |-> sz, mt |-> mt]
DirNode(mt) == [k |-> "dir", sz |-> DirLen, mt |-> mt]

(* fs::metadata: the root of the file system is a directory, a path the    *)
(* model does not track does not exist.                                    *)
metadata(f, p) ==
    IF p = EmptyPath THEN DirNode(0)
    ELSE IF p \in DOMAIN f THEN f[p] ELSE NoNode

exists(f, p) == metadata(f, p).k # "none"
is_file(f, p) == metadata(f, p).k = "file"
is_dir(f, p) == metadata(f, p).k = "dir"

Children(f, p) == { q \in DOMAIN f : Len(q) = Len(p) + 1 /\ starts_with(q, p)
                                     /\ f[q].k # "none" }

(* Writing an entry into a directory or removing one updates the           *)
(* directory's modification time.                                          *)
Touch(f, p) ==
    IF p \in DOMAIN f /\ f[p].k = "dir"
    THEN [f EXCEPT ![p].mt = Now] ELSE f

Put(f, p, node) ==
    IF p \in DOMAIN f
    THEN IF f[p].k = "none" THEN Touch([f EXCEPT ![p] = node], parent(p))
         ELSE [f EXCEPT ![p] = node]
    ELSE f

Unlink(f, p) == Touch([f EXCEPT ![p] = NoNode], parent(p))

(* The prefixes of p, shortest first: the directories fs::create_dir_all   *)
(* walks through.                                                          *)
Prefixes(p) == [i \in 1..Len(p) |-> SubSeq(p, 1, i)]

(* fs::create_dir_all(p): fails when a component exists and is not a       *)
(* directory, creates the missing ones.                                    *)
create_dir_all_ok(f, p) ==
    \A i \in 1..Len(p) : ~is_file(f, SubSeq(p, 1, i))

RECURSIVE MkDirs(_, _, _)
MkDirs(f, ps, i) ==
    IF i > Len(ps) THEN f
    ELSE MkDirs(IF exists(f, ps[i]) THEN f ELSE Put(f, ps[i], DirNode(Now)),
                ps, i + 1)

create_dir_all(f, p) == MkDirs(f, Prefixes(p), 1)

(* fs::remove_file / tokio::fs::remove_file: the errno, "ok" on success.   *)
remove_file_res(f, p) ==
    CASE is_file(f, p) -> "ok"
      [] is_dir(f, p) -> "EISDIR"
      [] OTHER -> "ENOENT"

(* fs::remove_dir / tokio::fs::remove_dir: removes an EMPTY directory.     *)
remove_dir_res(f, p) ==
    CASE ~exists(f, p) -> "ENOENT"
      [] is_file(f, p) -> "ENOTDIR"
      [] Children(f, p) # {} -> "ENOTEMPTY"
      [] OTHER -> "ok"

----------------------------------------------------------------------------
(* file_util.rs: needs_update, on the metadata of src and of dest.         *)

needs_update_ge(sm, dm) ==
    IF dm.k = "none" THEN TRUE
    ELSE IF sm.sz # dm.sz THEN TRUE
    ELSE IF sm.mt >= dm.mt + TOLERANCE THEN TRUE
    ELSE FALSE

needs_update(sm, dm) ==
    IF dm.k = "none" THEN TRUE
    ELSE IF sm.sz # dm.sz THEN TRUE
    ELSE IF sm.mt > dm.mt + TOLERANCE THEN TRUE
    ELSE FALSE

----------------------------------------------------------------------------
(* item.rs: Item and its constructors.                                     *)

Item(src, dest, strategy) == [src |-> src, dest |-> dest, strategy |-> strategy]

from_delete_strategy(dest) == Item(EmptyPath, dest, "Delete")
from_copy_strategy(src, dest) == Item(src, dest, "Copy")
from_ignore_strategy(src, dest) == Item(src, dest, "Ignore")
from_notupdate_strategy(src, dest) == Item(src, dest, "NotUpdate")
(* the strategy stays Ignore *)
change_no_strategy(item) == item

(* item.rs:146-148  vec[i].change_delete_strategy() *)
change_delete_strategy(item) == [item EXCEPT !.src = EmptyPath, !.strategy = "Delete"]

(* BackupModel::default() is Full; job.model.unwrap_or_default()           *)
unwrap_or_default(model) == IF model = "None" THEN "Full" ELSE model

(* WalkDir::new(root): every entry at or below root, a directory before    *)
(* its contents.                                                           *)
WalkDir(f, root) ==
    SelectSeq(WalkOrder, LAMBDA p : starts_with(p, root) /\ exists(f, p))

(* item.rs:106-110  ignore_paths = job.ignore.map(|s| src.join(s))         *)
ignore_paths(job) == [i \in 1..Len(job.ignore) |-> join(job.source, job.ignore[i])]

(* the text of name n begins with the text of name m *)
NameBeginsWith(n, m) == n = m \/ (m = "d" /\ n = "da")

(* matching on the text of the path instead of its components *)
is_ignored_text(job, entry_path) ==
    \E i \in 1..Len(job.ignore) :
        LET q == ignore_paths(job)[i]
        IN  /\ Len(q) <= Len(entry_path)
            /\ SubSeq(entry_path, 1, Len(q) - 1) = SubSeq(q, 1, Len(q) - 1)
            /\ NameBeginsWith(entry_path[Len(q)], q[Len(q)])

(* item.rs:117  ignore_paths.iter().any(|p| entry_path.starts_with(p))     *)
is_ignored(job, entry_path) ==
    \E i \in 1..Len(job.ignore) : starts_with(entry_path, ignore_paths(job)[i])

(* item.rs:112-136  the item planned for one entry of the source walk      *)
source_item(f, job, entry_path) ==
    LET prefix == parent(job.source)
        rel == strip_prefix(entry_path, prefix)
        dest == join(job.target, rel)
    IN  IF is_ignored(job, entry_path)
        THEN from_ignore_strategy(entry_path, dest)
        ELSE IF unwrap_or_default(job.model) = "Full"
             THEN from_copy_strategy(entry_path, dest)
             ELSE IF needs_update(metadata(f, entry_path), metadata(f, dest))
                  THEN from_copy_strategy(entry_path, dest)
                  ELSE from_notupdate_strategy(entry_path, dest)

source_pass(f, job) ==
    LET entries == WalkDir(f, job.source)
    IN  [i \in 1..Len(entries) |-> source_item(f, job, entries[i])]

(* vec.iter().position(|v| v.dest.eq(entry_path)), 0 for None              *)
position(vec, entry_path) ==
    IF \E i \in 1..Len(vec) : vec[i].dest = entry_path
    THEN CHOOSE i \in 1..Len(vec) :
            /\ vec[i].dest = entry_path
            /\ \A j \in 1..(i - 1) : vec[j].dest # entry_path
    ELSE 0

(* the walk over the target without the filter on the target root          *)
RECURSIVE target_pass_root(_, _, _, _)
target_pass_root(vec, entries, n, target) ==
    IF n > Len(entries) THEN vec
    ELSE LET entry_path == entries[n]
             i == position(vec, entry_path)
         IN  IF i # 0
             THEN IF vec[i].strategy = "Ignore"
                  THEN target_pass_root([vec EXCEPT ![i] = change_delete_strategy(@)],
                                        entries, n + 1, target)
                  ELSE target_pass_root(vec, entries, n + 1, target)
             ELSE target_pass_root(Append(vec, from_delete_strategy(entry_path)),
                                   entries, n + 1, target)

(* item.rs:138-152  the walk over the target, whatever the model           *)
RECURSIVE target_pass(_, _, _, _)
target_pass(vec, entries, n, target) ==
    IF n > Len(entries) THEN vec
    ELSE LET entry_path == entries[n]
             i == position(vec, entry_path)
         IN  IF entry_path = target
             THEN target_pass(vec, entries, n + 1, target)
             ELSE IF i # 0
                  THEN IF vec[i].strategy = "Ignore"
                       THEN target_pass([vec EXCEPT ![i] = change_delete_strategy(@)],
                                        entries, n + 1, target)
                       ELSE target_pass(vec, entries, n + 1, target)
                  ELSE target_pass(Append(vec, from_delete_strategy(entry_path)),
                                   entries, n + 1, target)

(* item.rs:90-154  get_items, on the file system left by                   *)
(* fs::create_dir_all(&target)                                             *)
get_items(f, job) ==
    target_pass(source_pass(f, job), WalkDir(f, job.target), 1, job.target)

----------------------------------------------------------------------------
(* file_util::copy / copy_async, called by item.rs:165 and item.rs:190.    *)
(* A directory is created at dest; a file is copied to dest, or into dest  *)
(* when dest is an existing directory.                                     *)

copy_target(f, src, dest) ==
    IF is_dir(f, dest) THEN join(dest, file_name(src)) ELSE dest

copy_res(f, src, dest) ==
    IF ~exists(f, src) THEN "ENOENT"
    ELSE IF is_dir(f, src)
         THEN IF is_file(f, dest) THEN "ENOTDIR"
              ELSE IF create_dir_all_ok(f, dest) THEN "ok" ELSE "ENOTDIR"
         ELSE LET tf == copy_target(f, src, dest)
              IN  IF ~create_dir_all_ok(f, parent(tf)) THEN "ENOTDIR"
                  ELSE IF is_dir(f, tf) THEN "EISDIR"
                  ELSE IF tf \notin Paths THEN "EIO"
                  ELSE "ok"

copy(f, src, dest) ==
    IF copy_res(f, src, dest) # "ok" THEN f
    ELSE IF is_dir(f, src) THEN create_dir_all(f, dest)
    ELSE LET tf == copy_target(f, src, dest)
             g == create_dir_all(f, parent(tf))
         IN  Put(g, tf, FileNode(f[src].sz, Now))

----------------------------------------------------------------------------
(* item.rs:60-88  get_item, for a source that exists and is a regular file *)

(* the target taken as the destination whatever it is *)
get_item_plain(f, job) ==
    LET src == job.source
        dest == job.target
    IN  IF unwrap_or_default(job.model) = "Full"
        THEN Item(src, dest, "Copy")
        ELSE IF needs_update(metadata(f, src), metadata(f, dest))
             THEN Item(src, dest, "Copy")
             ELSE Item(src, dest, "NotUpdate")

get_item(f, job) ==
    LET src == job.source
        dest == IF exists(f, job.target) /\ is_dir(f, job.target)
                THEN join(job.target, file_name(src))
                ELSE job.target
    IN  IF unwrap_or_default(job.model) = "Full"
        THEN Item(src, dest, "Copy")
        ELSE IF needs_update(metadata(f, src), metadata(f, dest))
             THEN Item(src, dest, "Copy")
             ELSE Item(src, dest, "NotUpdate")

----------------------------------------------------------------------------
(* file_util.rs:119-149  compression, and the compress_* functions it      *)
(* dispatches to.                                                          *)

(* the level handed on as it is *)
level_as_given(level) == level

(* job.rs:140  job.level.as_ref().unwrap_or(&Level::Default)               *)
unwrap_or_level(level) == IF level = "None" THEN "Default" ELSE level

(* the path of the artifact: dest.join(format!("{file_name}.<ext>"))       *)
artifact(f, src, dest, format) ==
    join(dest, <<artifact_name(file_name(src)[1], format, is_dir(f, src))>>)

(* file_util.rs:126-137  the checks made before anything is created, then  *)
(* fs::create_dir_all(dest) and File::create of the artifact               *)
compression_res(f, src, dest, format) ==
    IF ~exists(f, src) THEN "Source path does not exist"
    ELSE IF ~is_dir(f, src) /\ ~is_file(f, src) THEN "Does not support"
    ELSE IF exists(f, dest) /\ ~is_dir(f, dest) THEN "Invalid file type"
    ELSE IF ~create_dir_all_ok(f, dest) THEN "ENOTDIR"
    ELSE IF is_dir(f, artifact(f, src, dest, format)) THEN "EISDIR"
    ELSE "ok"

compression(f, src, dest, format, level, ignore) ==
    IF compression_res(f, src, dest, format) # "ok" THEN f
    ELSE Put(create_dir_all(f, dest), artifact(f, src, dest, format),
             FileNode(1, Now))

----------------------------------------------------------------------------
(* Initial states: a source tree, a target tree, a batch of jobs.          *)

Job(id, source, target, comp, level, ignore, model) ==
    [id |-> id, source |-> source, target |-> target,
     compression |-> comp, level |-> level,
     ignore |-> ignore, model |-> model]

Models == {"None", "Full", "Mirror"}
Patterns == { <<"d">>, <<"da">> }
IgnoreLists == { l \in UNION { [1..n -> Patterns] : n \in 0..MaxIgnore } :
                    \A i, j \in 1..Len(l) : i < j => l[i] # l[j] }

SrcFile == FileNode(1, SrcTime)
SrcDir == DirNode(SrcTime)

(* d: "none", "empty" or "full" (holding b); da: present or not *)
SrcTree(d, da) ==
    [p \in SrcPaths |->
        CASE p = <<"s">> -> SrcDir
          [] p = <<"s", "d">> -> IF d = "none" THEN NoNode ELSE SrcDir
          [] p = <<"s", "d", "b">> -> IF d = "full" THEN SrcFile ELSE NoNode
          [] p = <<"s", "da">> -> IF da THEN SrcFile ELSE NoNode]

OldTime == 0
DirOpts == { NoNode, FileNode(DirLen, SrcTime), DirNode(OldTime), DirNode(Now) }
FileOpts == { NoNode, DirNode(SrcTime) } \cup
            { FileNode(sz, mt) : sz \in Sizes, mt \in {SrcTime - 1, SrcTime - 2} }
LeafOpts == { NoNode, FileNode(1, SrcTime) }

(* every existing entry lies in an existing directory *)
WellFormed(f) ==
    \A p \in DOMAIN f : f[p].k # "none" /\ Len(p) > 1 => is_dir(f, parent(p))

DstTrees ==
    { f \in [DstPaths -> DirOpts \cup FileOpts \cup LeafOpts] : FALSE } \cup
    { [p \in DstPaths |->
        CASE p = <<"t">> -> c[1]
          [] p = <<"t", "o">> -> c[2]
          [] p = <<"t", "s">> -> c[3]
          [] p = <<"t", "s", "d">> -> c[4]
          [] p = <<"t", "s", "d", "b">> -> c[5]
          [] p = <<"t", "s", "da">> -> c[6]
          [] p = <<"t", "s", "da", "da">> -> c[7]] :
      c \in { <<NoNode, NoNode, NoNode, NoNode, NoNode, NoNode, NoNode>>,
              <<FileNode(1, SrcTime), NoNode, NoNode, NoNode, NoNode, NoNode, NoNode>> }
            \cup ({DirNode(OldTime)} \X LeafOpts \X {NoNode, FileNode(DirLen, SrcTime)}
                     \X {NoNode} \X {NoNode} \X {NoNode} \X {NoNode})
            \cup ({DirNode(OldTime)} \X LeafOpts \X {DirNode(Now)}
                     \X {NoNode, FileNode(DirLen, SrcTime), DirNode(OldTime), DirNode(Now)}
                     \X LeafOpts \X FileOpts \X {NoNode}) }

InitTrees == { f \in DstTrees : WellFormed(f) }

(* a file system holding source tree sf and target tree tf, no artifact *)
MkFs(sf, tf) ==
    [p \in Paths |-> IF p \in SrcPaths THEN sf[p]
                     ELSE IF p \in DstPaths THEN tf[p] ELSE NoNode]

MainJob(ignore, model) ==
    Job(1, SourceRoot, TargetRoot, "None", "None", ignore, model)
MissingJob == Job(2, Missing, TargetRoot, "None", "None", << >>, "None")

Batches == { <<MainJob(ig, m)>> : ig \in IgnoreLists, m \in Models }
           \cup { <<MainJob(ig, m), MissingJob>> : ig \in IgnoreLists, m \in Models }

NuIdle == [sm |-> NoNode, dm |-> NoNode, called |-> TRUE, out |-> TRUE]

(* application.rs:37-42  Application::new(): no jobs; no operation yet     *)
AppIdle == [jobs |-> << >>, op |-> "new", id |-> 0, ret |-> "none", before |-> << >>]

(* main.rs:668-673  no backup of the config file has been made;            *)
(* backup is << >> while the backup file is absent and <<jobs>> once it    *)
(* holds a job list, was is what the config file held at the last reset    *)
CfgIdle == [backup |-> << >>, was |-> << >>]

(* no item handed to the executor on its own *)
ExIdle == [on |-> FALSE, item |-> Item(EmptyPath, EmptyPath, "Ignore"), n |-> 0,
           out |-> << >>, fs1 |-> << >>]

Init ==
    /\ \E d \in {"none", "empty", "full"}, da \in BOOLEAN, t \in InitTrees :
          fs = MkFs(SrcTree(d, da), t)
    /\ jobs \in Batches
    /\ pc = [j \in 1..Len(jobs) |-> "ready"]
    /\ items = [j \in 1..Len(jobs) |-> << >>]
    /\ st = [j \in 1..Len(jobs) |-> << >>]
    /\ res = [j \in 1..Len(jobs) |-> "none"]
    /\ alive = TRUE
    /\ run = 1
    /\ fs0 = fs
    /\ prev = [j \in 1..Len(jobs) |-> "none"]
    /\ ext = 0
    /\ nu = NuIdle
    /\ call = << >>
    /\ app = AppIdle
    /\ ex = ExIdle
    /\ ret = "none"
    /\ cfg = CfgIdle

----------------------------------------------------------------------------
(* job.rs: run_job / run_job_async.                                        *)

InFlight == {"file", "dir"}
Failed(s) == s \notin {"todo", "ok", "dropped"} \cup InFlight

(* job.rs:157-159 / 216-218  `while let Some(res) = tasks.next().await {   *)
(* res?; }`: the first error returns from the job and drops the            *)
(* FuturesUnordered with every future that has not completed; when every   *)
(* future has completed with Ok the job returns Ok.                        *)
Observe(j, stj) ==
    IF \E i \in 1..Len(stj) : Failed(stj[i])
    THEN LET dropped == [i \in 1..Len(stj) |->
                            IF stj[i] = "todo" THEN "dropped" ELSE stj[i]]
         IN  /\ st' = [st EXCEPT ![j] = dropped]
             /\ res' = [res EXCEPT ![j] = "err"]
             /\ pc' = [pc EXCEPT ![j] =
                         IF \E i \in 1..Len(stj) : stj[i] \in InFlight
                         THEN "drain" ELSE "done"]
    ELSE /\ st' = [st EXCEPT ![j] = stj]
         /\ res' = [res EXCEPT ![j] =
                       IF \A i \in 1..Len(stj) : stj[i] = "ok" THEN "ok" ELSE @]
         /\ pc' = [pc EXCEPT ![j] =
                       IF \A i \in 1..Len(stj) : stj[i] = "ok" THEN "done" ELSE @]

(* the first item is carried out as soon as it is planned, before the     *)
(* worklist is handed to the executor                                      *)
planned_started(f, job) ==
    LET g == create_dir_all(f, job.target)
        vec == get_items(g, job)
        r == IF vec[1].strategy = "Copy"
             THEN [fs |-> copy(g, vec[1].src, vec[1].dest),
                   res |-> copy_res(g, vec[1].src, vec[1].dest)]
             ELSE [fs |-> g, res |-> "ok"]
    IN  [fs |-> r.fs, items |-> vec,
         st |-> [i \in 1..Len(vec) |-> IF i = 1 THEN r.res ELSE "todo"]]

(* job.rs:150-155 / 211-215  let items = get_items(job.clone())?: the      *)
(* whole worklist, on the file system left by create_dir_all(&target), and *)
(* no item of it started                                                   *)
planned(f, job) ==
    LET g == create_dir_all(f, job.target)
        vec == get_items(g, job)
    IN  [fs |-> g, items |-> vec, st |-> [i \in 1..Len(vec) |-> "todo"]]

(* the check of the target left out *)
target_never_file(f, job) == FALSE

(* job.rs:142 / 204  target.exists() && target.is_file()                   *)
target_is_file(f, job) == exists(f, job.target) /\ is_file(f, job.target)

(* job.rs:138-166 / 192-223  run_job, run_job_async: the archive           *)
(* collaborator for a job with a compression format, get_items for a       *)
(* directory source, get_item otherwise; up to the worklist.               *)
run_job(j) ==
    /\ alive
    /\ pc[j] = "ready"
    /\ LET job == jobs[j] IN
         IF job.compression # "None"
         THEN LET level == unwrap_or_level(job.level)
                  r == compression_res(fs, job.source, job.target, job.compression)
              IN  /\ call' = Append(call, [src |-> job.source, dest |-> job.target,
                                           format |-> job.compression,
                                           level |-> level, ignore |-> job.ignore])
                  /\ fs' = compression(fs, job.source, job.target,
                                       job.compression, level, job.ignore)
                  /\ res' = [res EXCEPT ![j] = IF r = "ok" THEN "ok" ELSE "err"]
                  /\ pc' = [pc EXCEPT ![j] = "done"]
                  /\ UNCHANGED <<items, st, alive>>
         ELSE IF is_dir(fs, job.source)
         THEN IF target_is_file(fs, job)
              THEN /\ res' = [res EXCEPT ![j] = "err"]
                   /\ pc' = [pc EXCEPT ![j] = "done"]
                   /\ UNCHANGED <<fs, items, st, alive, call>>
              ELSE LET p == planned(fs, job)
                   IN  /\ fs' = p.fs
                       /\ items' = [items EXCEPT ![j] = p.items]
                       /\ st' = [st EXCEPT ![j] = p.st]
                       /\ pc' = [pc EXCEPT ![j] = "exec"]
                       /\ UNCHANGED <<res, alive, call>>
         ELSE IF ~exists(fs, job.source)
         THEN \* get_item: eprintln!(..); process::exit(1)
              /\ alive' = FALSE
              /\ UNCHANGED <<fs, items, st, res, pc, call>>
         ELSE LET item == get_item(fs, job)
              IN  /\ items' = [items EXCEPT ![j] = <<item>>]
                  /\ st' = [st EXCEPT ![j] = <<"todo">>]
                  /\ pc' = [pc EXCEPT ![j] = "exec"]
                  /\ UNCHANGED <<fs, res, alive, call>>
    /\ UNCHANGED <<jobs, run, fs0, prev, ext, nu, app, ex, ret, cfg>>

(* item.rs:181-204  execute_item_async, up to its first await              *)
execute_item_async(j, i) ==
    /\ alive
    /\ pc[j] = "exec"
    /\ i \in 1..Len(items[j])
    /\ st[j][i] = "todo"
    /\ LET item == items[j][i] IN
         CASE item.strategy = "Copy" ->
                /\ fs' = copy(fs, item.src, item.dest)
                /\ Observe(j, [st[j] EXCEPT ![i] = copy_res(fs, item.src, item.dest)])
           [] item.strategy = "Delete" ->
                /\ fs' = fs
                /\ Observe(j, [st[j] EXCEPT ![i] =
                        IF exists(fs, item.dest)
                        THEN IF is_file(fs, item.dest) THEN "file"
                             ELSE IF is_dir(fs, item.dest) THEN "dir" ELSE "ok"
                        ELSE "ok"])
           [] OTHER ->
                /\ fs' = fs
                /\ Observe(j, [st[j] EXCEPT ![i] = "ok"])
    /\ UNCHANGED <<jobs, items, alive, run, fs0, prev, ext, nu, call, app, ex, ret, cfg>>

(* item.rs:195, 197  tokio::fs::remove_file(&dest).await? /                *)
(* tokio::fs::remove_dir(&dest).await?                                     *)
remove_res(f, how, dest) ==
    IF how = "file" THEN remove_file_res(f, dest) ELSE remove_dir_res(f, dest)

remove_await(j, i) ==
    /\ alive
    /\ pc[j] \in {"exec", "drain"}
    /\ i \in 1..Len(items[j])
    /\ st[j][i] \in InFlight
    /\ LET dest == items[j][i].dest
           r == remove_res(fs, st[j][i], dest)
           stj == [st[j] EXCEPT ![i] = r]
       IN  /\ fs' = IF r = "ok" THEN Unlink(fs, dest) ELSE fs
           /\ IF pc[j] = "exec"
              THEN Observe(j, stj)
              ELSE /\ st' = [st EXCEPT ![j] = stj]
                   /\ pc' = [pc EXCEPT ![j] =
                               IF \E k \in 1..Len(stj) : stj[k] \in InFlight
                               THEN "drain" ELSE "done"]
                   /\ UNCHANGED res
    /\ UNCHANGED <<jobs, items, alive, run, fs0, prev, ext, nu, call, app, ex, ret, cfg>>

(* A future dropped with the FuturesUnordered while it awaits the removal: *)
(* the removal may never be carried out.                                   *)
drop_future(j, i) ==
    /\ alive
    /\ pc[j] = "drain"
    /\ i \in 1..Len(items[j])
    /\ st[j][i] \in InFlight
    /\ LET stj == [st[j] EXCEPT ![i] = "dropped"]
       IN  /\ st' = [st EXCEPT ![j] = stj]
           /\ pc' = [pc EXCEPT ![j] =
                       IF \E k \in 1..Len(stj) : stj[k] \in InFlight
                       THEN "drain" ELSE "done"]
    /\ UNCHANGED <<fs, jobs, items, res, alive, run, fs0, prev, ext, nu, call, app, ex, ret, cfg>>

(* The same batch is started again once it has returned.                   *)
rerun ==
    /\ alive
    /\ run < MaxRuns
    /\ \A j \in 1..Len(jobs) : pc[j] = "done"
    /\ Len(jobs) > 0
    /\ run' = run + 1
    /\ fs0' = fs
    /\ prev' = res
    /\ pc' = [j \in 1..Len(jobs) |-> "ready"]
    /\ items' = [j \in 1..Len(jobs) |-> << >>]
    /\ st' = [j \in 1..Len(jobs) |-> << >>]
    /\ res' = [j \in 1..Len(jobs) |-> "none"]
    /\ UNCHANGED <<fs, jobs, alive, ext, nu, call, app, ex, ret, cfg>>

(* Another process removes an entry of the target while a job is being    *)
(* executed (only in SpecExt).                                             *)
ext_remove(p) ==
    /\ alive
    /\ ext < MaxExt
    /\ \E j \in 1..Len(jobs) : pc[j] = "exec"
    /\ p \in DstPaths \ {TargetRoot}
    /\ exists(fs, p)
    /\ Children(fs, p) = {}
    /\ fs' = Unlink(fs, p)
    /\ ext' = ext + 1
    /\ UNCHANGED <<jobs, pc, items, st, res, alive, run, fs0, prev, nu, call, app, ex, ret, cfg>>

(* One call of needs_update on the metadata drawn by InitNU (only in       *)
(* SpecNU).                                                                *)
needs_update_call ==
    /\ ~nu.called
    /\ nu' = [nu EXCEPT !.called = TRUE, !.out = needs_update(nu.sm, nu.dm)]
    /\ UNCHANGED <<fs, jobs, pc, items, st, res, alive, run, fs0, prev, ext,
                   call, app, ex, ret, cfg>>

Next ==
    \/ \E j \in 1..Len(jobs) : run_job(j)
    \/ \E j \in 1..Len(jobs) : \E i \in 1..Len(items[j]) : execute_item_async(j, i)
    \/ \E j \in 1..Len(jobs) : \E i \in 1..Len(items[j]) : remove_await(j, i)
    \/ \E j \in 1..Len(jobs) : \E i \in 1..Len(items[j]) : drop_future(j, i)
    \/ rerun

Spec == Init /\ [][Next]_vars

TypeOK ==
    /\ WellFormed(fs)
    /\ \A j \in 1..Len(jobs) : pc[j] \in {"ready", "exec", "drain", "done"}


(* The engine with another process working on the target.                  *)
InitExt == Init /\ Len(jobs) = 1 /\ jobs[1].ignore = << >>

NextExt == Next \/ \E p \in DstPaths : ext_remove(p)

SpecExt == InitExt /\ [][NextExt]_vars

(* One job of every kind: a directory, a single file or a missing source,  *)
(* with or without a compression format.                                   *)
Levels == {"None", "Best"}
FileTargets == { <<"t", "s">>, <<"t", "s", "da">>, <<"t", "o">> }

JobKinds ==
    { Job(1, SourceRoot, TargetRoot, "None", "None", << >>, m) : m \in Models }
    \cup { Job(1, <<"s", "da">>, t, "None", "None", << >>, m) :
              t \in FileTargets, m \in Models }
    \cup { Job(1, Missing, TargetRoot, "None", "None", << >>, "None") }
    \cup { Job(1, src, TargetRoot, c, l, << >>, "None") :
              src \in {SourceRoot, <<"s", "da">>, Missing},
              c \in Formats, l \in Levels }

InitJob ==
    /\ \E d \in {"none", "full"}, da \in BOOLEAN, t \in InitTrees :
          fs = MkFs(SrcTree(d, da), t)
    /\ \E job \in JobKinds :
          /\ jobs = <<job>>
          /\ job.source = <<"s", "da">> => exists(fs, job.source)
    /\ pc = <<"ready">>
    /\ items = << << >> >>
    /\ st = << << >> >>
    /\ res = <<"none">>
    /\ alive = TRUE
    /\ run = 1
    /\ fs0 = fs
    /\ prev = <<"none">>
    /\ ext = 0
    /\ nu = NuIdle
    /\ call = << >>
    /\ app = AppIdle
    /\ ex = ExIdle
    /\ ret = "none"
    /\ cfg = CfgIdle

SpecJob == InitJob /\ [][Next]_vars

----------------------------------------------------------------------------
(* application.rs: the Application and its list of jobs.                   *)

MaxJobs == 3      \* an Application holds at most this many jobs

(* one more than the number of jobs, whatever their ids *)
next_id_len(js) == Len(js) + 1

(* application.rs:67-80  1 for an empty list, otherwise the first id of    *)
(* 1..u32::MAX that no job has                                             *)
next_id(js) ==
    IF Len(js) = 0 THEN 1
    ELSE LET job_ids == { js[i].id : i \in 1..Len(js) }
         IN  CHOOSE id \in 1..(Len(js) + 1) :
                /\ id \notin job_ids
                /\ \A k \in 1..(id - 1) : k \in job_ids

(* Vec::swap_remove: the last element takes the place of the removed one *)
swap_remove(js, index) ==
    [i \in 1..(Len(js) - 1) |-> IF i = index THEN js[Len(js)] ELSE js[i]]

(* Vec::remove(index): the elements after index move up by one *)
remove(js, index) ==
    [i \in 1..(Len(js) - 1) |-> IF i < index THEN js[i] ELSE js[i + 1]]

(* self.jobs.iter().position(|j| j.id == id), 0 for None *)
position_id(js, id) ==
    IF \E i \in 1..Len(js) : js[i].id = id
    THEN CHOOSE i \in 1..Len(js) :
            /\ js[i].id = id
            /\ \A k \in 1..(i - 1) : js[k].id # id
    ELSE 0

(* application.rs:58-90  Application::add_job *)
add_job(source, target, comp, level) ==
    /\ Len(app.jobs) < MaxJobs
    /\ LET id == next_id(app.jobs)
       IN  app' = [jobs |-> Append(app.jobs,
                                   Job(id, source, target, comp, level, << >>, "None")),
                   op |-> "add", id |-> id, ret |-> "none", before |-> app.jobs]
    /\ UNCHANGED <<fs, jobs, pc, items, st, res, alive, run, fs0, prev, ext, nu,
                   call, ex, ret, cfg>>

(* application.rs:131-138  Application::remove_job *)
remove_job(id) ==
    /\ LET index == position_id(app.jobs, id)
       IN  IF index # 0
           THEN app' = [jobs |-> remove(app.jobs, index),
                        op |-> "remove", id |-> id, ret |-> "Some",
                        before |-> app.jobs]
           ELSE app' = [jobs |-> app.jobs,
                        op |-> "remove", id |-> id, ret |-> "None",
                        before |-> app.jobs]
    /\ UNCHANGED <<fs, jobs, pc, items, st, res, alive, run, fs0, prev, ext, nu,
                   call, ex, ret, cfg>>

InitApp ==
    /\ fs = [p \in Paths |-> NoNode]
    /\ jobs = << >>
    /\ pc = << >>
    /\ items = << >>
    /\ st = << >>
    /\ res = << >>
    /\ alive = TRUE
    /\ run = 1
    /\ fs0 = fs
    /\ prev = << >>
    /\ ext = 0
    /\ nu = NuIdle
    /\ call = << >>
    /\ app = AppIdle
    /\ ex = ExIdle
    /\ ret = "none"
    /\ cfg = CfgIdle

NextApp ==
    \/ \E source \in {SourceRoot, <<"s", "da">>} : add_job(source, TargetRoot, "None", "None")
    \/ \E id \in 0..(MaxJobs + 1) : remove_job(id)

SpecApp == InitApp /\ [][NextApp]_vars

----------------------------------------------------------------------------
(* item.rs:156-179  execute_item, the synchronous executor: the file       *)
(* system it leaves and what it returns.                                   *)

MaxExec == 2      \* an item is handed to execute_item at most this many times

(* every item that is not a Delete executed as a Copy *)
execute_item_copies(f, item) ==
    IF item.strategy = "Delete"
    THEN [fs |-> f, res |-> "ok"]
    ELSE [fs |-> copy(f, item.src, item.dest), res |-> copy_res(f, item.src, item.dest)]

(* a Delete that does not look whether dest exists *)
execute_item_unchecked(f, item) ==
    CASE item.strategy = "Copy" ->
            [fs |-> copy(f, item.src, item.dest), res |-> copy_res(f, item.src, item.dest)]
      [] item.strategy = "Delete" ->
            IF is_dir(f, item.dest)
            THEN [fs |-> IF remove_dir_res(f, item.dest) = "ok"
                         THEN Unlink(f, item.dest) ELSE f,
                  res |-> remove_dir_res(f, item.dest)]
            ELSE [fs |-> IF remove_file_res(f, item.dest) = "ok"
                         THEN Unlink(f, item.dest) ELSE f,
                  res |-> remove_file_res(f, item.dest)]
      [] OTHER -> [fs |-> f, res |-> "ok"]

execute_item(f, item) ==
    CASE item.strategy = "Copy" ->
            [fs |-> copy(f, item.src, item.dest), res |-> copy_res(f, item.src, item.dest)]
      [] item.strategy = "Delete" ->
            IF exists(f, item.dest)
            THEN IF is_file(f, item.dest)
                 THEN [fs |-> IF remove_file_res(f, item.dest) = "ok"
                              THEN Unlink(f, item.dest) ELSE f,
                       res |-> remove_file_res(f, item.dest)]
                 ELSE IF is_dir(f, item.dest)
                      THEN [fs |-> IF remove_dir_res(f, item.dest) = "ok"
                                   THEN Unlink(f, item.dest) ELSE f,
                            res |-> remove_dir_res(f, item.dest)]
                      ELSE [fs |-> f, res |-> "ok"]
            ELSE [fs |-> f, res |-> "ok"]
      [] OTHER -> [fs |-> f, res |-> "ok"]

(* one call of execute_item on the item of ex *)
execute_item_call ==
    /\ ex.on
    /\ ex.n < MaxExec
    /\ LET r == execute_item(fs, ex.item)
       IN  /\ fs' = r.fs
           /\ ex' = [ex EXCEPT !.n = @ + 1,
                               !.out = Append(@, r.res),
                               !.fs1 = IF ex.n = 0 THEN r.fs ELSE @]
    /\ UNCHANGED <<jobs, pc, items, st, res, alive, run, fs0, prev, ext, nu,
                   call, app, ret, cfg>>

(* The executors on their own: an item of any strategy is handed to        *)
(* execute_item, or is the whole worklist of execute_item_async.           *)
ExecItems ==
    { Item(src, dest, strategy) :
        src \in { <<"s", "da">>, <<"s", "d">>, Missing },
        dest \in DstPaths \ {TargetRoot},
        strategy \in {"Copy", "NotUpdate", "Ignore"} }
    \cup { from_delete_strategy(dest) : dest \in DstPaths \ {TargetRoot} }

InitExec ==
    /\ \E d \in {"none", "full"}, da \in BOOLEAN, t \in InitTrees :
          fs = MkFs(SrcTree(d, da), t)
    /\ is_dir(fs, TargetRoot)
    /\ \E item \in ExecItems :
          \/ /\ ex = [on |-> TRUE, item |-> item, n |-> 0, out |-> << >>, fs1 |-> fs]
             /\ jobs = << >>
             /\ pc = << >>
             /\ items = << >>
             /\ st = << >>
             /\ res = << >>
             /\ prev = << >>
          \/ /\ ex = ExIdle
             /\ jobs = <<Job(0, SourceRoot, TargetRoot, "None", "None", << >>, "None")>>
             /\ pc = <<"exec">>
             /\ items = << <<item>> >>
             /\ st = << <<"todo">> >>
             /\ res = <<"none">>
             /\ prev = <<"none">>
    /\ alive = TRUE
    /\ run = 1
    /\ fs0 = fs
    /\ ext = 0
    /\ nu = NuIdle
    /\ call = << >>
    /\ app = AppIdle
    /\ ret = "none"
    /\ cfg = CfgIdle

NextExec ==
    \/ execute_item_call
    \/ \E j \in 1..Len(jobs) : \E i \in 1..Len(items[j]) : execute_item_async(j, i)
    \/ \E j \in 1..Len(jobs) : \E i \in 1..Len(items[j]) : remove_await(j, i)

SpecExec == InitExec /\ [][NextExec]_vars

(* needs_update alone, on every pair of metadata.                          *)
Metas == { FileNode(sz, mt) : sz \in Sizes, mt \in Times }
         \cup { DirNode(mt) : mt \in Times }

InitNU ==
    /\ fs = [p \in Paths |-> NoNode]
    /\ jobs = << >>
    /\ pc = << >>
    /\ items = << >>
    /\ st = << >>
    /\ res = << >>
    /\ alive = TRUE
    /\ run = 1
    /\ fs0 = fs
    /\ prev = << >>
    /\ ext = 0
    /\ nu \in [sm : Metas, dm : Metas \cup {NoNode}, called : {FALSE}, out : {FALSE}]
    /\ call = << >>
    /\ app = AppIdle
    /\ ex = ExIdle
    /\ ret = "none"
    /\ cfg = CfgIdle

NextNU == needs_update_call

SpecNU == InitNU /\ [][NextNU]_vars

----------------------------------------------------------------------------
(* What the specification says about a job, stated without the planner.    *)

(* p is equal to or nested under source/<pattern>, by whole components     *)
UnderPattern(job, p) ==
    \E k \in 1..Len(job.ignore) :
        LET q == job.source \o job.ignore[k]
        IN  Len(q) <= Len(p) /\ \A n \in 1..Len(q) : p[n] = q[n]

(* the destination of source entry p: target/basename(source)/...          *)
DestOf(job, p) == job.target \o SubSeq(p, Len(job.source), Len(p))

IsMirror(j) == jobs[j].model = "Mirror"
IsFull(j) == jobs[j].model \in {"None", "Full"}
IsDirJob(j) == jobs[j].source = SourceRoot

(* the non-ignored entries of the source in file system f *)
Kept(f, j) == { p \in SrcPaths : exists(f, p) /\ ~UnderPattern(jobs[j], p) }
KeptFiles(f, j) == { p \in Kept(f, j) : is_file(f, p) }

(* the entries under the target root that are not the destination of a     *)
(* non-ignored source entry                                                *)
Orphans(f, j) ==
    { q \in DstPaths : /\ exists(f, q)
                       /\ q # jobs[j].target
                       /\ \A p \in Kept(f, j) : DestOf(jobs[j], p) # q }

Planned(j) == pc[j] = "exec" /\ \A i \in 1..Len(st[j]) : st[j][i] = "todo"
Attempted(j) == pc[j] = "done" /\ Len(items[j]) > 0
                /\ \A i \in 1..Len(st[j]) : st[j][i] # "dropped"
Succeeded(j) == pc[j] = "done" /\ res[j] = "ok"

Deletes(j) == { i \in 1..Len(items[j]) : items[j][i].strategy = "Delete" }

----------------------------------------------------------------------------
(* C1: after a Mirror directory job has run successfully, every            *)
(* non-ignored regular file of the source exists at its destination and    *)
(* no regular file exists under the target that is not the destination of  *)
(* a non-ignored source file.                                              *)
C1_MirrorEquivalent ==
    \A j \in 1..Len(jobs) :
        IsDirJob(j) /\ IsMirror(j) /\ Succeeded(j) =>
            /\ \A p \in KeptFiles(fs, j) : exists(fs, DestOf(jobs[j], p))
            /\ \A q \in DstPaths :
                  is_file(fs, q) =>
                      \E p \in KeptFiles(fs, j) : DestOf(jobs[j], p) = q

(* C2: a Full (or unset) directory job never plans a Delete.               *)
C2_FullNeverDeletes ==
    \A j \in 1..Len(jobs) : IsFull(j) => Deletes(j) = {}

(* C3: a Mirror directory job plans exactly one Delete for each entry      *)
(* under the target that is not the destination of a non-ignored source    *)
(* entry and no other Delete, and once the worklist has been executed      *)
(* none of those entries exists.                                           *)
C3_DeletionComplete ==
    \A j \in 1..Len(jobs) :
        IsDirJob(j) /\ IsMirror(j) =>
            /\ Planned(j) =>
                  /\ \A q \in Orphans(fs, j) :
                        Cardinality({ i \in Deletes(j) : items[j][i].dest = q }) = 1
                  /\ \A i \in Deletes(j) : items[j][i].dest \in Orphans(fs, j)
            /\ Attempted(j) =>
                  \A i \in Deletes(j) : ~exists(fs, items[j][i].dest)


(* C4: no Copy item has a src equal to or nested under source/<pattern>,   *)
(* and matching is by whole components: every source entry that is not     *)
(* under a pattern, a sibling named like the pattern's text with more      *)
(* letters included, is planned as Copy or NotUpdate.                      *)
C4_IgnoreContainment ==
    \A j \in 1..Len(jobs) :
        /\ \A i \in 1..Len(items[j]) :
              items[j][i].strategy = "Copy" => ~UnderPattern(jobs[j], items[j][i].src)
        /\ Len(items[j]) > 0 =>
              \A p \in Kept(fs, j) :
                  \E i \in 1..Len(items[j]) :
                      /\ items[j][i].src = p
                      /\ items[j][i].strategy \in {"Copy", "NotUpdate"}

(* pattern d, with s/d/b below it ignored and the sibling s/da copied *)
C4_Witness ==
    \E j \in 1..Len(jobs) :
        /\ Planned(j)
        /\ jobs[j].ignore = << <<"d">> >>
        /\ is_file(fs, <<"s", "d", "b">>)
        /\ \E i \in 1..Len(items[j]) :
              items[j][i].src = <<"s", "da">> /\ items[j][i].strategy = "Copy"
        /\ \A i \in 1..Len(items[j]) :
              items[j][i].strategy = "Copy" => items[j][i].src # <<"s", "d", "b">>

(* C5: the second of two Mirror runs in a row plans no Copy and no Delete, *)
(* and leaves the destination tree as the first run left it.               *)
Content(f) == [q \in DstPaths |-> [k |-> f[q].k, sz |-> IF f[q].k = "file" THEN f[q].sz ELSE 0]]

C5_SecondRunSkips ==
    \A j \in 1..Len(jobs) :
        IsDirJob(j) /\ IsMirror(j) /\ run = 2 /\ prev[j] = "ok" =>
            /\ \A i \in 1..Len(items[j]) :
                  items[j][i].strategy \notin {"Copy", "Delete"}
            /\ pc[j] = "done" => Content(fs) = Content(fs0)

(* C6: in a batch of two or more jobs a failing job is reported and every  *)
(* other job still runs to completion and populates its destination.       *)
BatchOver == ~alive \/ \A j \in 1..Len(jobs) : pc[j] = "done"

C6_BatchIsolation ==
    Len(jobs) >= 2 /\ BatchOver =>
        \A j \in 1..Len(jobs) :
            /\ ~exists(fs, jobs[j].source) => res[j] = "err"
            /\ IsDirJob(j) =>
                  /\ pc[j] = "done"
                  /\ res[j] = "ok" =>
                        \A p \in KeptFiles(fs, j) : exists(fs, DestOf(jobs[j], p))

(* C7: when an action of a worklist fails, the job returns the failure     *)
(* and every other action of the worklist has still been run to            *)
(* completion or failure.                                                  *)
C7_SiblingsAttempted ==
    \A j \in 1..Len(jobs) :
        pc[j] = "done" /\ Len(items[j]) > 0 /\ res[j] = "err" =>
            \A i \in 1..Len(items[j]) : st[j][i] # "dropped"

(* C8: a Delete whose dest is a directory removes it with all of its       *)
(* contents and succeeds; a Delete whose dest is a regular file removes    *)
(* the file.                                                               *)
Carried(j, i) == st[j][i] \notin {"todo", "dropped"} \cup InFlight

C8_DeleteRecursive ==
    \A j \in 1..Len(jobs) :
        \A i \in Deletes(j) :
            Carried(j, i) /\ exists(fs0, items[j][i].dest) =>
                /\ st[j][i] = "ok"
                /\ \A q \in DstPaths : starts_with(q, items[j][i].dest) => ~exists(fs, q)

(* C9: a Delete succeeds when its dest is removed by something else        *)
(* between planning and the removal call: not-found never fails it.        *)
C9_DeleteNotFoundOk ==
    \A j \in 1..Len(jobs) :
        \A i \in Deletes(j) : st[j][i] # "ENOENT"

(* C10: needs_update is true when dest does not exist, otherwise when the  *)
(* sizes differ, otherwise exactly when src's modification time is         *)
(* strictly greater than dest's plus 1 second; a difference of exactly 1   *)
(* second, and a dest newer than src of equal size, give false.            *)
C10_NeedsUpdate ==
    nu.called /\ nu.sm.k # "none" =>
        /\ nu.out = (\/ nu.dm.k = "none"
                     \/ nu.sm.sz # nu.dm.sz
                     \/ nu.sm.mt > nu.dm.mt + 1)
        /\ nu.dm.k # "none" /\ nu.sm.sz = nu.dm.sz /\ nu.sm.mt = nu.dm.mt + 1
              => nu.out = FALSE
        /\ nu.dm.k # "none" /\ nu.sm.sz = nu.dm.sz /\ nu.dm.mt > nu.sm.mt
              => nu.out = FALSE

(* equal sizes, src exactly one second newer than dest: no update *)
C10_Witness ==
    /\ nu.called
    /\ nu.sm.k = "file" /\ nu.dm.k = "file"
    /\ nu.sm.sz = nu.dm.sz
    /\ nu.sm.mt = nu.dm.mt + 1
    /\ nu.out = FALSE

----------------------------------------------------------------------------
IsFileJob(j) == jobs[j].source = <<"s", "da">> /\ jobs[j].compression = "None"

(* C11: for a single-file job get_item returns exactly one item; its dest  *)
(* is target/basename(source) when target exists and is a directory and    *)
(* target itself otherwise; under Full (or unset) it is Copy, under Mirror *)
(* it is Copy when needs_update(source, dest) holds and NotUpdate          *)
(* otherwise.                                                              *)
C11_GetItem ==
    \A j \in 1..Len(jobs) :
        IsFileJob(j) /\ pc[j] # "ready" =>
            /\ Len(items[j]) = 1
            /\ LET job == jobs[j]
                   it == items[j][1]
                   dest == IF fs0[job.target].k = "dir"
                           THEN job.target \o <<"da">> ELSE job.target
               IN  /\ it.src = job.source
                   /\ it.dest = dest
                   /\ IsFull(j) => it.strategy = "Copy"
                   /\ IsMirror(j) =>
                         it.strategy =
                             IF needs_update(fs0[job.source], fs0[dest])
                             THEN "Copy" ELSE "NotUpdate"

(* a Mirror single-file job into the existing directory t/s, whose file    *)
(* t/s/da is up to date                                                    *)
C11_Witness ==
    \E j \in 1..Len(jobs) :
        /\ IsFileJob(j) /\ IsMirror(j)
        /\ jobs[j].target = <<"t", "s">>
        /\ is_dir(fs0, <<"t", "s">>)
        /\ Len(items[j]) = 1
        /\ items[j][1].dest = <<"t", "s", "da">>
        /\ items[j][1].strategy = "NotUpdate"

(* C12: a job without compression that fails a precondition (its source    *)
(* is missing, or its source is a directory and its target exists as a     *)
(* regular file) fails before anything is planned: it has no worklist, no  *)
(* Copy or Delete is executed, and the destination is neither created nor  *)
(* modified.                                                               *)
PreconditionFails(j) ==
    /\ jobs[j].compression = "None"
    /\ \/ metadata(fs0, jobs[j].source).k = "none"
       \/ /\ metadata(fs0, jobs[j].source).k = "dir"
          /\ metadata(fs0, jobs[j].target).k = "file"

C12_PreconditionFirst ==
    \A j \in 1..Len(jobs) :
        PreconditionFails(j) =>
            /\ items[j] = << >>
            /\ st[j] = << >>
            /\ fs = fs0
            /\ pc[j] # "ready" => res[j] = "err"
            /\ ~alive => metadata(fs0, jobs[j].source).k = "none"

(* a directory job whose target is a regular file has returned its error *)
C12_Witness ==
    \E j \in 1..Len(jobs) :
        /\ jobs[j].compression = "None"
        /\ is_dir(fs0, jobs[j].source)
        /\ is_file(fs0, jobs[j].target)
        /\ pc[j] = "done"
        /\ res[j] = "err"
        /\ is_file(fs, jobs[j].target)

(* C13: a job with a compression format calls only the archive             *)
(* collaborator, once per run, with the job's source, target, format and   *)
(* ignore list and with level Default when the job has none, and returns   *)
(* its result; no item is planned or executed; the collaborator fails and  *)
(* creates nothing when the source does not exist or the target exists and *)
(* is not a directory.                                                     *)
IsArchiveJob(j) == jobs[j].compression # "None"

C13_ArchiveOnly ==
    \A j \in 1..Len(jobs) :
        IsArchiveJob(j) =>
            /\ alive
            /\ items[j] = << >>
            /\ st[j] = << >>
            /\ pc[j] \in {"ready", "done"}
            /\ pc[j] = "done" =>
                  /\ Len(call) = run
                  /\ call[run] = [src |-> jobs[j].source, dest |-> jobs[j].target,
                                  format |-> jobs[j].compression,
                                  level |-> IF jobs[j].level = "None" THEN "Default"
                                            ELSE jobs[j].level,
                                  ignore |-> jobs[j].ignore]
                  /\ LET bad == \/ metadata(fs0, jobs[j].source).k = "none"
                                \/ metadata(fs0, jobs[j].target).k = "file"
                     IN  /\ res[j] = IF bad THEN "err" ELSE "ok"
                         /\ bad => fs = fs0

(* a Zip job without a level has run: one call, with level Default *)
C13_Witness ==
    \E j \in 1..Len(jobs) :
        /\ jobs[j].compression = "Zip" /\ jobs[j].level = "None"
        /\ pc[j] = "done" /\ res[j] = "ok"
        /\ Len(call) = 1 /\ call[1].level = "Default"
        /\ items[j] = << >>

(* the extension of a format *)
Ext(format) ==
    CASE format = "Gzip" -> "gz"
      [] format = "Zip" -> "zip"
      [] format = "Sevenz" -> "7z"
      [] format = "Zstd" -> "zst"
      [] format = "Bzip2" -> "bz2"
      [] format = "Xz" -> "xz"
      [] format = "Lz4" -> "lz4"
      [] format = "Tar" -> "tar"

Basename(p) == p[Len(p)]

(* the formats that compress one stream and need tar to hold a directory *)
StreamFormats == {"Gzip", "Zstd", "Bzip2", "Xz", "Lz4"}

(* the entries other than the target directory itself that the current run *)
(* has created or changed                                                  *)
Produced(j) == { p \in Paths : p # jobs[j].target /\ fs[p] # fs0[p] }

Archived(j) == IsArchiveJob(j) /\ pc[j] = "done" /\ res[j] = "ok"

(* C14 as stated: for every format the one artifact is named               *)
(* basename(source).ext(format) for a file and                             *)
(* basename(source).tar.ext(format) for a directory.                       *)
C14_ArtifactName ==
    \A j \in 1..Len(jobs) :
        Archived(j) =>
            LET base == Basename(jobs[j].source)
                name == IF is_dir(fs, jobs[j].source)
                        THEN base \o ".tar." \o Ext(jobs[j].compression)
                        ELSE base \o "." \o Ext(jobs[j].compression)
                art == jobs[j].target \o <<name>>
            IN  /\ is_file(fs, art)
                /\ Produced(j) \subseteq {art}

(* C14 amended: the one artifact is named basename(source).ext(format)     *)
(* for a file; for a directory it is basename(source).tar.ext(format)      *)
(* under Gzip, Zstd, Bzip2, Xz and Lz4 and basename(source).ext(format)    *)
(* under Zip, Sevenz and Tar.                                              *)
C14_ArtifactNameByFormat ==
    \A j \in 1..Len(jobs) :
        Archived(j) =>
            LET base == Basename(jobs[j].source)
                name == IF /\ is_dir(fs, jobs[j].source)
                           /\ jobs[j].compression \in StreamFormats
                        THEN base \o ".tar." \o Ext(jobs[j].compression)
                        ELSE base \o "." \o Ext(jobs[j].compression)
                art == jobs[j].target \o <<name>>
            IN  /\ is_file(fs, art)
                /\ Produced(j) \subseteq {art}

(* a directory archived with Gzip and a run that produced s.tar.gz *)
C14_Witness ==
    \E j \in 1..Len(jobs) :
        /\ Archived(j)
        /\ jobs[j].compression = "Gzip"
        /\ is_dir(fs, jobs[j].source)
        /\ Produced(j) = { <<"t", "s.tar.gz">> }

AppIds(js) == { js[i].id : i \in 1..Len(js) }

(* C15: the ids of the stored jobs are pairwise distinct and none is 0;    *)
(* add_job appends a job with the smallest positive integer that no stored *)
(* job uses, so that an id freed by remove_job is reused when it is the    *)
(* smallest free one.                                                      *)
C15_UniqueIds ==
    /\ \A i, k \in 1..Len(app.jobs) : i # k => app.jobs[i].id # app.jobs[k].id
    /\ \A i \in 1..Len(app.jobs) : app.jobs[i].id > 0
    /\ app.op = "add" =>
          /\ app.id > 0
          /\ app.id \notin AppIds(app.before)
          /\ \A n \in 1..(app.id - 1) : n \in AppIds(app.before)
          /\ Len(app.jobs) = Len(app.before) + 1
          /\ app.jobs[Len(app.jobs)].id = app.id
          /\ SubSeq(app.jobs, 1, Len(app.before)) = app.before

(* ids 2 and 3 are stored, id 1 has been freed: add_job reuses 1 *)
C15_Witness ==
    /\ app.op = "add"
    /\ AppIds(app.before) = {2, 3}
    /\ app.id = 1
    /\ Len(app.jobs) = 3

(* C20: remove_job(id) removes exactly the stored job with that id and     *)
(* returns Some, every other job and their order unchanged; when no stored *)
(* job has that id it returns None and the list is unchanged.              *)
C20_RemoveJob ==
    app.op = "remove" =>
        IF app.id \in AppIds(app.before)
        THEN /\ app.ret = "Some"
             /\ app.jobs = SelectSeq(app.before, LAMBDA x : x.id # app.id)
             /\ Len(app.jobs) = Len(app.before) - 1
        ELSE /\ app.ret = "None"
             /\ app.jobs = app.before

(* the first of three jobs removed: the other two keep their order *)
C20_Witness ==
    /\ app.op = "remove"
    /\ Len(app.before) = 3
    /\ app.id = app.before[1].id
    /\ app.ret = "Some"
    /\ app.jobs = <<app.before[2], app.before[3]>>

----------------------------------------------------------------------------
NoEffect == {"NotUpdate", "Ignore"}

(* C16: executing a NotUpdate or Ignore item, with execute_item or with    *)
(* execute_item_async, succeeds and leaves the file system as it was.      *)
C16_SkipStep ==
    /\ ex.on /\ ex'.n = ex.n + 1 /\ ex.item.strategy \in NoEffect =>
          /\ ex'.out[ex'.n] = "ok"
          /\ fs' = fs
    /\ \A j \in 1..Len(jobs) :
          \A i \in 1..Len(items[j]) :
              /\ items[j][i].strategy \in NoEffect
              /\ st[j][i] = "todo"
              /\ st'[j][i] # "todo"
              => /\ st'[j][i] = "ok"
                 /\ fs' = fs

C16_SkipNoEffect == [][C16_SkipStep]_vars

(* a NotUpdate item has been executed: its src is still there and its dest *)
(* has not been created                                                    *)
C16_Witness ==
    /\ ex.on /\ ex.n >= 1
    /\ ex.item.strategy = "NotUpdate"
    /\ ex.out[1] = "ok"
    /\ is_file(fs, ex.item.src)
    /\ ~exists(fs, ex.item.dest)
    /\ fs = fs0

(* the directories above p, the root excluded *)
Ancestors(p) == { SubSeq(p, 1, n) : n \in 1..(Len(p) - 1) }

(* C17: a Copy item that has been executed successfully has created every  *)
(* missing ancestor directory of dest and made dest hold the content of    *)
(* src, replacing what was at dest; src is left as it was; the action      *)
(* fails when src cannot be read.                                          *)
C17_CopyItem ==
    \A j \in 1..Len(jobs) :
        \A i \in 1..Len(items[j]) :
            LET it == items[j][i]
            IN  it.strategy = "Copy" /\ Carried(j, i) =>
                    /\ ~exists(fs0, it.src) => st[j][i] # "ok"
                    /\ st[j][i] = "ok" /\ is_file(fs0, it.src) =>
                          /\ \A a \in Ancestors(it.dest) : is_dir(fs, a)
                          /\ is_file(fs, it.dest)
                          /\ fs[it.dest].sz = fs[it.src].sz
                          /\ fs[it.src] = fs0[it.src]

RECURSIVE InOrder(_, _, _)
InOrder(f, vec, n) ==
    IF n > Len(vec) THEN [fs |-> f, ok |-> TRUE]
    ELSE LET r == execute_item(f, vec[n])
         IN  IF r.res # "ok" THEN [fs |-> r.fs, ok |-> FALSE]
             ELSE InOrder(r.fs, vec, n + 1)

(* C19: every interleaving of the items of a worklist gives the same       *)
(* outcome, the one of executing them in the order of the list: the same   *)
(* success or failure of the job and the same destination tree.            *)
C19_OrderIndependent ==
    \A j \in 1..Len(jobs) :
        IsDirJob(j) /\ ~IsArchiveJob(j) /\ pc[j] = "done" /\ Len(items[j]) > 0 =>
            LET ref == InOrder(create_dir_all(fs0, jobs[j].target), items[j], 1)
            IN  /\ (res[j] = "ok") = ref.ok
                /\ ref.ok => Content(fs) = Content(ref.fs)

----------------------------------------------------------------------------
(* main.rs / application.rs: the commands that rewrite the config file.    *)
(* app.jobs is the job list the config file holds: every command loads it, *)
(* changes it and writes it back; main() creates the file before any       *)
(* command runs.                                                           *)

MaxCfgJobs == 2   \* the config file holds at most this many jobs

(* main.rs:146-162, 274-289  the add command; clap accepts --level only    *)
(* together with --compression                                             *)
add(source, target, comp, level) ==
    /\ level # "None" => comp # "None"
    /\ add_job(source, target, comp, level)

(* main.rs:509-528, application.rs:93-95  delete --all, confirmed with y   *)
delete_all ==
    /\ app.jobs # << >>
    /\ app' = [jobs |-> << >>, op |-> "delete_all", id |-> 0, ret |-> "ok",
               before |-> app.jobs]
    /\ UNCHANGED <<fs, jobs, pc, items, st, res, alive, run, fs0, prev, ext, nu,
                   call, ex, ret, cfg>>

(* clearing the compression leaves the level as it is *)
clear_field_only(job, field) ==
    CASE field = "Compression" -> [job EXCEPT !.compression = "None"]
      [] field = "Level"       -> [job EXCEPT !.level = "None"]
      [] field = "Ignore"      -> [job EXCEPT !.ignore = << >>]
      [] field = "Model"       -> [job EXCEPT !.model = "None"]

(* main.rs:579-596  one ClearField of edit --clear *)
clear_field(job, field) ==
    CASE field = "Compression" -> [job EXCEPT !.compression = "None", !.level = "None"]
      [] field = "Level"       -> [job EXCEPT !.level = "None"]
      [] field = "Ignore"      -> [job EXCEPT !.ignore = << >>]
      [] field = "Model"       -> [job EXCEPT !.model = "None"]

(* main.rs:578-597  for field in clear_fields, the first n of them *)
RECURSIVE clear_fields(_, _, _)
clear_fields(job, clear, n) ==
    IF n = 0 THEN job
    ELSE clear_field(clear_fields(job, clear, n - 1), clear[n])

(* main.rs:551-623  the edit command; an option that is not given is       *)
(* "None" (<< >> for a path, a list of fields or a list of patterns)       *)
edit(id, source, target, comp, level, ignore, model, clear) ==
    /\ LET index == position_id(app.jobs, id)
           job == app.jobs[index]
           moved == [job EXCEPT !.source = IF source # << >> THEN source ELSE @,
                                !.target = IF target # << >> THEN target ELSE @]
           cleared == clear_fields(moved, clear, Len(clear))
           set == IF comp # "None" THEN [cleared EXCEPT !.compression = comp]
                  ELSE cleared
           edited == [set EXCEPT !.level = IF level # "None" THEN level ELSE @,
                                 !.ignore = IF ignore # << >> THEN ignore ELSE @,
                                 !.model = IF model # "None" THEN model ELSE @]
       IN  IF index = 0
           THEN app' = [jobs |-> app.jobs, op |-> "edit", id |-> id,
                        ret |-> "not found", before |-> app.jobs]
           ELSE IF level # "None" /\ set.compression = "None"
                THEN app' = [jobs |-> app.jobs, op |-> "edit", id |-> id,
                             ret |-> "exit", before |-> app.jobs]
                ELSE app' = [jobs |-> [app.jobs EXCEPT ![index] = edited],
                             op |-> "edit", id |-> id, ret |-> "ok",
                             before |-> app.jobs]
    /\ UNCHANGED <<fs, jobs, pc, items, st, res, alive, run, fs0, prev, ext, nu,
                   call, ex, ret, cfg>>

(* the reset writes the empty job list and keeps the backup it found *)
reset_backup_kept(c, js) == [backup |-> c.backup, was |-> js]

(* main.rs:647-655  fs::copy(config_file, backed_config_file): the backup  *)
(* file holds what the config file held                                    *)
reset_backup(c, js) == [backup |-> <<js>>, was |-> js]

(* main.rs:647-665  config --reset: the config file exists, so it is       *)
(* copied to the backup, then Application::new() is written                *)
reset_config_file ==
    /\ cfg' = reset_backup(cfg, app.jobs)
    /\ app' = [jobs |-> << >>, op |-> "reset", id |-> 0, ret |-> "ok",
               before |-> app.jobs]
    /\ UNCHANGED <<fs, jobs, pc, items, st, res, alive, run, fs0, prev, ext, nu,
                   call, ex, ret>>

(* main.rs:668-682  config --rollback: exit(1) without a backup file,      *)
(* otherwise the backup is read and written to the config file             *)
rollback_config_file ==
    /\ IF cfg.backup = << >>
       THEN app' = [jobs |-> app.jobs, op |-> "rollback", id |-> 0,
                    ret |-> "exit", before |-> app.jobs]
       ELSE app' = [jobs |-> cfg.backup[1], op |-> "rollback", id |-> 0,
                    ret |-> "ok", before |-> app.jobs]
    /\ UNCHANGED <<fs, jobs, pc, items, st, res, alive, run, fs0, prev, ext, nu,
                   call, ex, ret, cfg>>

(* the values an edit or an add can be given *)
(* The commands around a reset and a rollback: jobs are added, deleted,   *)
(* and edited in their backup model.                                       *)
NextCfg ==
    \/ /\ Len(app.jobs) < MaxCfgJobs
       /\ add(SourceRoot, TargetRoot, "None", "None")
    \/ \E id \in 1..MaxCfgJobs : remove_job(id)
    \/ delete_all
    \/ \E id \in 1..MaxCfgJobs, model \in {"None", "Mirror"},
          clear \in {<< >>, <<"Model">>} :
          edit(id, << >>, << >>, "None", "None", << >>, model, clear)
    \/ reset_config_file
    \/ rollback_config_file

SpecCfg == InitApp /\ [][NextCfg]_vars

(* C21: a rollback that finds a backup leaves the config file with the job *)
(* list it held just before the last reset, whatever was added, deleted or *)
(* edited since; the reset itself empties the job list and saves the old   *)
(* one as the backup; a rollback without a backup exits and leaves the     *)
(* job list as it was.                                                     *)
C21_ResetRollback ==
    /\ (app.op = "reset") =>
          /\ app.jobs = << >>
          /\ cfg.backup = <<app.before>>
    /\ (app.op = "rollback" /\ app.ret = "ok") => app.jobs = cfg.was
    /\ (app.op = "rollback" /\ app.ret = "exit") =>
          /\ app.jobs = app.before
          /\ cfg.backup = << >>

(* a rollback after a reset of a non-empty list and changes made since *)
C21_Witness ==
    /\ app.op = "rollback"
    /\ app.ret = "ok"
    /\ app.jobs # << >>
    /\ app.before # << >>
    /\ app.before # app.jobs

(* C22: every Copy or NotUpdate item that get_items plans for a directory  *)
(* job has a regular file as its src: no directory of the source tree,     *)
(* the source root included, gets an item.                                 *)
C22_FilesOnly ==
    \A j \in 1..Len(jobs) :
       (IsDirJob(j) /\ pc[j] # "ready") =>
          \A i \in 1..Len(items[j]) :
             items[j][i].strategy \in {"Copy", "NotUpdate"} =>
                is_file(fs0, items[j][i].src)

(* C23: in the worklist of a Mirror directory job, an ignored source path  *)
(* whose destination exists has exactly one item for that destination and  *)
(* it is a Delete; an ignored source path whose destination does not exist *)
(* has only items that change nothing when they are executed.              *)
C23_IgnoredMirror ==
    \A j \in 1..Len(jobs) :
       (IsDirJob(j) /\ IsMirror(j) /\ Planned(j)) =>
          \A p \in SrcPaths :
             (exists(fs, p) /\ UnderPattern(jobs[j], p)) =>
                LET d == DestOf(jobs[j], p)
                    at == { i \in 1..Len(items[j]) : items[j][i].dest = d }
                IN  IF exists(fs, d)
                    THEN /\ Cardinality(at) = 1
                         /\ \A i \in at : items[j][i].strategy = "Delete"
                    ELSE /\ at # {}
                         /\ \A i \in at : execute_item(fs, items[j][i]).fs = fs

(* a Mirror job planned with one ignored path already in the target and    *)
(* another ignored path that is not                                        *)
C23_Witness ==
    \E j \in 1..Len(jobs) :
       /\ IsDirJob(j) /\ IsMirror(j) /\ Planned(j)
       /\ \E p, q \in SrcPaths :
             /\ exists(fs, p) /\ UnderPattern(jobs[j], p)
             /\ exists(fs, DestOf(jobs[j], p))
             /\ exists(fs, q) /\ UnderPattern(jobs[j], q)
             /\ ~exists(fs, DestOf(jobs[j], q))

(* C24: every entry enumerated under the source of a directory job has an  *)
(* item whose dest is target joined with the entry's path relative to the  *)
(* parent of source; so the dest of every Copy and NotUpdate lies under    *)
(* target/basename(source), and items of distinct source paths have        *)
(* distinct dests.                                                         *)
C24_DestMapping ==
    \A j \in 1..Len(jobs) :
       (IsDirJob(j) /\ Planned(j)) =>
          LET job == jobs[j]
              vec == items[j]
              top == job.target \o <<Basename(job.source)>>
          IN  /\ \A p \in SrcPaths :
                    exists(fs, p) =>
                       \E i \in 1..Len(vec) :
                          /\ vec[i].dest = DestOf(job, p)
                          /\ vec[i].src = p \/ vec[i].strategy = "Delete"
              /\ \A i \in 1..Len(vec) :
                    vec[i].strategy \in {"Copy", "NotUpdate"} =>
                       /\ vec[i].dest = DestOf(job, vec[i].src)
                       /\ starts_with(vec[i].dest, top)
              /\ \A i, k \in 1..Len(vec) :
                    (vec[i].src # EmptyPath /\ vec[k].src # EmptyPath
                       /\ vec[i].src # vec[k].src) => vec[i].dest # vec[k].dest

(* a planned worklist with the items of the source root and of a file two  *)
(* levels below it                                                         *)
C24_Witness ==
    \E j \in 1..Len(jobs) :
       /\ IsDirJob(j) /\ Planned(j)
       /\ \E i, k \in 1..Len(items[j]) :
             /\ items[j][i].src = SourceRoot
             /\ items[j][i].dest = <<"t", "s">>
             /\ items[j][k].src = <<"s", "d", "b">>
             /\ items[j][k].dest = <<"t", "s", "d", "b">>
             /\ items[j][k].strategy = "Copy"

(* C25: within a job planning comes before execution.  The step that       *)
(* plans a directory or single-file job changes the file system at most by *)
(* creating the target directory, returns the whole worklist (an item for  *)
(* every entry of the source, each Mirror decision already taken by        *)
(* needs_update) and starts none of its items; once planned the worklist   *)
(* never changes; and a job whose planning fails has no worklist and has   *)
(* touched nothing.                                                        *)
C25_PlanStep ==
    \A j \in 1..Len(jobs) :
       LET job == jobs[j]
           made == { Prefixes(job.target)[n] : n \in 1..Len(job.target) }
       IN  /\ (pc[j] = "ready" /\ pc'[j] = "exec") =>
                 /\ \A p \in Paths \ made : fs'[p] = fs[p]
                 /\ Len(items'[j]) > 0
                 /\ Len(st'[j]) = Len(items'[j])
                 /\ \A i \in 1..Len(st'[j]) : st'[j][i] = "todo"
                 /\ \A p \in SrcPaths :
                       (exists(fs, p) /\ starts_with(p, job.source)) =>
                          \E i \in 1..Len(items'[j]) :
                             items'[j][i].dest = DestOf(job, p)
                                \/ items'[j][i].src = p
                 /\ \A i \in 1..Len(items'[j]) :
                       LET item == items'[j][i]
                       IN  (IsMirror(j) /\ item.strategy \in {"Copy", "NotUpdate"}) =>
                              (item.strategy = "Copy") =
                                 needs_update(metadata(fs', item.src),
                                              metadata(fs', item.dest))
           /\ (pc[j] # "ready" /\ pc'[j] # "ready") => items'[j] = items[j]
           /\ (pc[j] = "ready" /\ ~IsArchiveJob(j) /\ (pc'[j] = "done" \/ ~alive')) =>
                 /\ fs' = fs
                 /\ items'[j] = << >>
                 /\ st'[j] = << >>

C25_PlanThenExecute == [][C25_PlanStep]_vars

(* a Mirror directory job whose worklist holds a Copy and a Delete, with   *)
(* one item carried out and another not yet started                        *)
C25_Witness ==
    \E j \in 1..Len(jobs) :
       /\ IsDirJob(j) /\ IsMirror(j) /\ pc[j] = "exec"
       /\ \E i, k \in 1..Len(items[j]) :
             /\ items[j][i].strategy = "Copy" /\ st[j][i] = "ok"
             /\ items[j][k].strategy = "Delete" /\ st[j][k] = "todo"

----------------------------------------------------------------------------
(* main.rs:293-303 run, job.rs:169-189 run_jobs: the batch as a whole.     *)

(* the first task that finishes ends the wait *)
any_joined(p) == \E j \in 1..Len(p) : p[j] = "done"

(* job.rs:182-186  while let Some(res) = set.join_next().await: every task *)
(* of the JoinSet has been joined; dropping the runtime then waits for the *)
(* blocking file operations that were started                              *)
all_joined(p) == \A j \in 1..Len(p) : p[j] = "done"

(* main.rs:293-303  run() returns: run_job(&jobs[0])? hands on the result  *)
(* of a single job, run_jobs(jobs)? is Ok(()) once every task is joined    *)
run_returns ==
    /\ alive
    /\ ret = "none"
    /\ Len(jobs) > 0
    /\ all_joined(pc)
    /\ ret' = IF Len(jobs) = 1 THEN res[1] ELSE "ok"
    /\ UNCHANGED <<fs, jobs, pc, items, st, res, alive, run, fs0, prev, ext, nu,
                   call, app, ex, cfg>>

(* the jobs of a batch: the first is a Mirror job or a single-file job,    *)
(* the second, when there is one, is a job of any kind                     *)
FirstJobs ==
    { MainJob(<< >>, "Mirror"),
      Job(1, <<"s", "da">>, <<"t", "o">>, "None", "None", << >>, "None") }
SecondJobs ==
    { MissingJob,
      Job(2, <<"s", "da">>, <<"t", "o">>, "None", "None", << >>, "Mirror"),
      Job(2, SourceRoot, TargetRoot, "Zip", "None", << >>, "None"),
      Job(2, Missing, TargetRoot, "Zip", "None", << >>, "None"),
      Job(2, SourceRoot, TargetRoot, "None", "None", << >>, "Mirror") }
BatchJobs == { <<a>> : a \in FirstJobs }
             \cup { <<a, b>> : a \in FirstJobs, b \in SecondJobs }

BatchTrees ==
    { t \in InitTrees : /\ t[<<"t", "s", "da">>] = NoNode
                        /\ t[<<"t", "s", "d">>] \in {NoNode, DirNode(OldTime)}
                        /\ t[<<"t", "s">>] = DirNode(Now)
                        /\ t[<<"t", "o">>] = NoNode }

InitBatch ==
    /\ \E d \in {"none", "full"}, t \in BatchTrees :
          fs = MkFs(SrcTree(d, TRUE), t)
    /\ jobs \in BatchJobs
    /\ pc = [j \in 1..Len(jobs) |-> "ready"]
    /\ items = [j \in 1..Len(jobs) |-> << >>]
    /\ st = [j \in 1..Len(jobs) |-> << >>]
    /\ res = [j \in 1..Len(jobs) |-> "none"]
    /\ alive = TRUE
    /\ run = 1
    /\ fs0 = fs
    /\ prev = [j \in 1..Len(jobs) |-> "none"]
    /\ ext = 0
    /\ nu = NuIdle
    /\ call = << >>
    /\ app = AppIdle
    /\ ex = ExIdle
    /\ ret = "none"
    /\ cfg = CfgIdle

NextBatch ==
    \/ \E j \in 1..Len(jobs) : run_job(j)
    \/ \E j \in 1..Len(jobs) : \E i \in 1..Len(items[j]) : execute_item_async(j, i)
    \/ \E j \in 1..Len(jobs) : \E i \in 1..Len(items[j]) : remove_await(j, i)
    \/ \E j \in 1..Len(jobs) : \E i \in 1..Len(items[j]) : drop_future(j, i)
    \/ run_returns

(* the tokio runtime polls every spawned task and every future until it    *)
(* completes, and block_on returns when its future does                    *)
SpecBatch == InitBatch /\ [][NextBatch]_vars /\ WF_vars(NextBatch)

(* run_jobs has returned *)
Returned == ret # "none"

(* what is left to do: jobs to plan, items to start, removals under way,  *)
(* and the return of run_jobs                                              *)
Weight == 2 * Cardinality(Paths) + 2

RECURSIVE Remaining(_)
Remaining(n) ==
    IF n = 0 THEN (IF Returned THEN 0 ELSE 1) + (IF alive THEN 1 ELSE 0)
    ELSE Remaining(n - 1)
         + (IF pc[n] = "ready" THEN Weight ELSE 0)
         + 2 * Cardinality({ i \in 1..Len(st[n]) : st[n][i] = "todo" })
         + Cardinality({ i \in 1..Len(st[n]) : st[n][i] \in InFlight })

(* C26: run_jobs has one task per job; when it has returned, every task    *)
(* has finished with a result and no removal of any job is still under     *)
(* way.  Every run comes to its end: as long as run_jobs has not returned  *)
(* and no job has ended the whole process there is a step to take, and     *)
(* every step leaves less to do, so the tasks and run_jobs terminate.      *)
C26_JoinsAll ==
    /\ [](/\ Len(pc) = Len(jobs)
          /\ Returned =>
                \A j \in 1..Len(jobs) :
                   /\ pc[j] = "done"
                   /\ res[j] # "none"
                   /\ \A i \in 1..Len(st[j]) : st[j][i] \notin InFlight)
    /\ []((alive /\ ~Returned) => ENABLED NextBatch)
    /\ [][Remaining(Len(jobs))' < Remaining(Len(jobs))]_vars

(* run_jobs has returned from two jobs, one that succeeded and one that    *)
(* failed after it had started removals                                    *)
C26_Witness ==
    /\ Returned
    /\ Len(jobs) = 2
    /\ res[1] = "err" /\ res[2] = "ok"
    /\ \E i \in 1..Len(st[1]) : st[1][i] = "dropped"

(* C29: a run of two or more jobs ends with Ok(()) whatever became of the  *)
(* jobs, so its result never shows that a job failed; a run of one job     *)
(* ends with the result of that job.                                       *)
C29_BatchResult ==
    /\ (Len(jobs) >= 2 /\ (Returned \/ ~alive)) => (alive /\ ret = "ok")
    /\ (Len(jobs) = 1 /\ Returned) => ret = res[1]

(* C27: in the worklist of a directory job no two items have the same      *)
(* dest and no Copy has a dest equal to or under the dest of a Delete, so  *)
(* no Copy writes a path that a Delete of the same worklist removes.       *)
C27_DisjointItems ==
    \A j \in 1..Len(jobs) :
       (IsDirJob(j) /\ Planned(j)) =>
          LET vec == items[j] IN
          /\ \A i, k \in 1..Len(vec) : i # k => vec[i].dest # vec[k].dest
          /\ \A i, k \in 1..Len(vec) :
                (vec[i].strategy = "Copy" /\ vec[k].strategy = "Delete") =>
                   /\ ~starts_with(vec[i].dest, vec[k].dest)
                   /\ ~starts_with(copy_target(fs, vec[i].src, vec[i].dest),
                                   vec[k].dest)

(* C28: every Delete item of a directory job targets a path under          *)
(* target/basename(source): an entry of the target outside that subtree    *)
(* never becomes a Delete, and the target root is never deleted.           *)
C28_DeleteScope ==
    \A j \in 1..Len(jobs) :
       (IsDirJob(j) /\ Planned(j)) =>
          \A i \in Deletes(j) :
             /\ starts_with(items[j][i].dest,
                            jobs[j].target \o <<Basename(jobs[j].source)>>)
             /\ items[j][i].dest # jobs[j].target

(* C28: every Delete item of a directory job targets a path strictly under *)
(* target, never the target root itself; in a Mirror job every entry of    *)
(* the target outside target/basename(source) does become a Delete.        *)
C28_DeleteUnderTarget ==
    \A j \in 1..Len(jobs) :
       (IsDirJob(j) /\ Planned(j)) =>
          LET job == jobs[j]
              top == job.target \o <<Basename(job.source)>>
          IN  /\ \A i \in Deletes(j) :
                    /\ starts_with(items[j][i].dest, job.target)
                    /\ items[j][i].dest # job.target
              /\ \A q \in DstPaths :
                    (IsMirror(j) /\ exists(fs, q) /\ q # job.target
                       /\ ~starts_with(q, top)) =>
                       \E i \in Deletes(j) : items[j][i].dest = q

(* a worklist with a Delete for t/o, which lies outside t/s, and one for   *)
(* an entry inside t/s                                                     *)
C28_Witness ==
    \E j \in 1..Len(jobs) :
       /\ IsDirJob(j) /\ IsMirror(j) /\ Planned(j)
       /\ \E i, k \in Deletes(j) :
             /\ items[j][i].dest = <<"t", "o">>
             /\ starts_with(items[j][k].dest, <<"t", "s">>)

----------------------------------------------------------------------------
(* The add and edit commands on the compression format and level.          *)
CfgFormats == {"None", "Zip", "Gzip"}
Clears == {<< >>, <<"Compression">>, <<"Level">>, <<"Level", "Compression">>}

NextEdit ==
    \/ \E comp \in CfgFormats, level \in Levels :
          /\ Len(app.jobs) < MaxCfgJobs
          /\ add(SourceRoot, TargetRoot, comp, level)
    \/ \E id \in 1..(MaxCfgJobs + 1), comp \in CfgFormats, level \in Levels,
          clear \in Clears :
          edit(id, << >>, << >>, comp, level, << >>, "None", clear)

SpecEdit == InitApp /\ [][NextEdit]_vars

(* the fields named by edit --clear *)
Cleared(clear) == { clear[n] : n \in 1..Len(clear) }

(* what an edit that wrote the config file has made of job old, given the  *)
(* options comp, level and clear: a set wins over a clear, and clearing    *)
(* the compression clears the level                                        *)
EditedAs(old, new, comp, level, clear) ==
    /\ new.compression =
          IF comp # "None" THEN comp
          ELSE IF "Compression" \in Cleared(clear) THEN "None"
          ELSE old.compression
    /\ new.level =
          IF level # "None" THEN level
          ELSE IF Cleared(clear) \cap {"Compression", "Level"} # {} THEN "None"
          ELSE old.level

C30_EditStep ==
    \A id \in 1..(MaxCfgJobs + 1), comp \in CfgFormats, level \in Levels,
       clear \in Clears :
       edit(id, << >>, << >>, comp, level, << >>, "None", clear) =>
          LET index == position_id(app.jobs, id)
          IN  /\ app'.ret = "ok" =>
                    EditedAs(app.jobs[index], app'.jobs[index], comp, level, clear)
              /\ app'.ret = "exit" <=>
                    /\ index # 0
                    /\ level # "None"
                    /\ comp = "None"
                    /\ \/ app.jobs[index].compression = "None"
                       \/ "Compression" \in Cleared(clear)
              /\ app'.ret # "ok" => app'.jobs = app.jobs

(* C30: after any sequence of add and edit commands every stored job with  *)
(* a compression level has a compression format; an edit applies its       *)
(* clears before its sets, clearing the compression clears the level, and  *)
(* an edit that would set a level on a job without compression exits and   *)
(* leaves the stored jobs as they were.                                    *)
C30_LevelNeedsCompression ==
    /\ [](\A i \in 1..Len(app.jobs) :
             app.jobs[i].level # "None" => app.jobs[i].compression # "None")
    /\ [][C30_EditStep]_vars

(* an edit that cleared the compression of a job that had a level, and     *)
(* with it the level                                                       *)
C30_Witness ==
    /\ app.op = "edit"
    /\ app.ret = "ok"
    /\ \E i \in 1..Len(app.jobs) :
          /\ app.before[i].compression = "Zip"
          /\ app.before[i].level = "Best"
          /\ app.jobs[i].compression = "None"
          /\ app.jobs[i].level = "None"

====
